---- MODULE Spec2Model ----
(***************************************************************************)
(* A model of the isa-interpreter simulator: the dependency graph          *)
(* (graph.rs), the three thread systems (threads.rs), the three storage    *)
(* systems (storage.rs) and the driver step (memory_model.rs, main.rs).    *)
(*                                                                         *)
(* Vec<T> is a sequence; node ids, thread ids and Vec indices are 0-based  *)
(* as in the source, so element i of a Vec v is v[i + 1].  Option<String>  *)
(* is <<>> for None and <<s>> for Some(s).  HashMap<K, V> is a function    *)
(* whose domain is the set of keys present.                                *)
(***************************************************************************)
EXTENDS Integers, Sequences, FiniteSets, TLC

VARIABLES
  model,            \* MemoryModelType chosen on the command line
  program,          \* index of the input program in Programs
  graph,            \* ThreadSystem.graph : Graph
  registers,        \* ThreadSystem.registers : Vec<HashMap<String, i32>>
  propagate_nodes,  \* TSO/PSO ThreadSystem.propagate_nodes
  buffers,          \* TSO/PSO StorageSystem.buffers
  memory,           \* StorageSystem.memory
  panicked,         \* the process has panicked (host arithmetic fault, unwrap of None)
  fifo_buffers,     \* reference storage draining the OLDEST entry, fed the same calls
  fifo_memory,
  fifo_agree,       \* every load/cas/fai result so far equalled the reference's
  rewinds,          \* number of backward jumps taken so far
  created_under,    \* pairs <<f, p>>: Fence node f was active when Propagate node p was created
  before_label,     \* label |-> the graph's state just before the label's node was last executed
  executions        \* node id |-> how many times the node has been executed (up to MaxCount)

vars == <<model, program, graph, registers, propagate_nodes, buffers, memory,
          panicked, fifo_buffers, fifo_memory, fifo_agree, rewinds, created_under,
          before_label, executions>>

\* Bounds of the model: the backward jumps one run may take, and the length
\* of the sequential interleavings a run's outcome is compared with.
MaxRewinds == 2

MaxSeqSteps == 10

\* The executions of one node that are told apart.
MaxCount == 4

\* The longest sequence of remove_node calls undone by restore_node calls.
MaxRoundTrip == 2

-----------------------------------------------------------------------------
(* instruction.rs *)

Modes == {"SeqCst", "Rel", "Acq", "RelAcq", "Rlx"}

Const(r, value) == [kind |-> "Const", r |-> r, value |-> value]
ArithPlus(r1, r2, r3) == [kind |-> "ArithPlus", r1 |-> r1, r2 |-> r2, r3 |-> r3]
ArithMinus(r1, r2, r3) == [kind |-> "ArithMinus", r1 |-> r1, r2 |-> r2, r3 |-> r3]
ArithMul(r1, r2, r3) == [kind |-> "ArithMul", r1 |-> r1, r2 |-> r2, r3 |-> r3]
ArithDiv(r1, r2, r3) == [kind |-> "ArithDiv", r1 |-> r1, r2 |-> r2, r3 |-> r3]
Cond(r, label) == [kind |-> "Cond", r |-> r, label |-> label]
Load(mode, address, r) == [kind |-> "Load", mode |-> mode, address |-> address, r |-> r]
Store(mode, address, r) == [kind |-> "Store", mode |-> mode, address |-> address, r |-> r]
Cas(mode, address, to, exp, des) ==
  [kind |-> "Cas", mode |-> mode, address |-> address, to |-> to, exp |-> exp, des |-> des]
Fai(mode, address, to, inc) ==
  [kind |-> "Fai", mode |-> mode, address |-> address, to |-> to, inc |-> inc]
Fence(mode) == [kind |-> "Fence", mode |-> mode]
Propagate(thread_id, address, value) ==
  [kind |-> "Propagate", thread_id |-> thread_id, address |-> address, value |-> value]

\* LabeledInstruction { label: Option<String>, instruction }
Plain(instruction) == [label |-> <<>>, instruction |-> instruction]
Labeled(label, instruction) == [label |-> <<label>>, instruction |-> instruction]

\* LabeledInstruction::get_mode : Option<Mode>
get_mode(li) ==
  IF li.instruction.kind \in {"Load", "Store", "Cas", "Fai", "Fence"}
  THEN <<li.instruction.mode>>
  ELSE <<>>

is_fence(li) == li.instruction.kind = "Fence"

\* i32: TLC's integers are themselves 32-bit, so the sums below never leave
\* the range while they are computed.
I32_MAX == 2147483647

I32_MIN == -I32_MAX - 1

Abs(n) == IF n < 0 THEN -n ELSE n

AddOverflows(a, b) == (b > 0 /\ a > I32_MAX - b) \/ (b < 0 /\ a < I32_MIN - b)

\* a + b modulo 2^32, as a two's complement i32.
AddWrap(a, b) ==
  IF b > 0 /\ a > I32_MAX - b THEN I32_MIN + ((a - (I32_MAX - b)) - 1)
  ELSE IF b < 0 /\ a < I32_MIN - b THEN I32_MAX - (((I32_MIN - b) - a) - 1)
  ELSE a + b

SubOverflows(a, b) == (b < 0 /\ a > I32_MAX + b) \/ (b > 0 /\ a < I32_MIN + b)

SubWrap(a, b) ==
  IF b < 0 /\ a > I32_MAX + b THEN I32_MIN + ((a - (I32_MAX + b)) - 1)
  ELSE IF b > 0 /\ a < I32_MIN + b THEN I32_MAX - (((I32_MIN + b) - a) - 1)
  ELSE a - b

MulOverflows(a, b) ==
  IF a = 0 \/ b = 0 THEN FALSE
  ELSE IF a = I32_MIN THEN b # 1
  ELSE IF b = I32_MIN THEN a # 1
  ELSE LET x == Abs(a)
           y == Abs(b)
       IN  IF (a < 0) = (b < 0) THEN x > I32_MAX \div y
           ELSE ~(x <= I32_MAX \div y
                  \/ (I32_MAX % y = y - 1 /\ x = (I32_MAX \div y) + 1))

RECURSIVE MulNat(_, _)
\* a * b modulo 2^32 for b >= 0, by doubling.
MulNat(a, b) ==
  IF b = 0 THEN 0
  ELSE LET h == MulNat(a, b \div 2)
           d == AddWrap(h, h)
       IN  IF b % 2 = 1 THEN AddWrap(d, a) ELSE d

\* For b < 0, b = -2^31 + (b - I32_MIN), and a * -2^31 is -2^31 or 0 modulo 2^32.
MulWrap(a, b) ==
  IF b >= 0 THEN MulNat(a, b)
  ELSE AddWrap(IF a % 2 = 1 THEN I32_MIN ELSE 0, MulNat(a, (b + I32_MAX) + 1))

DivOverflows(a, b) == a = I32_MIN /\ b = -1

\* Rust's `/` on i32 truncates toward zero; b # 0 and not DivOverflows(a, b).
TruncDiv(a, b) ==
  IF b = 1 THEN a
  ELSE IF b = I32_MIN THEN (IF a = I32_MIN THEN 1 ELSE 0)
  ELSE LET y == Abs(b)
           q == IF a = I32_MIN
                THEN (I32_MAX \div y) + (IF I32_MAX % y = y - 1 THEN 1 ELSE 0)
                ELSE Abs(a) \div y
       IN  IF (a < 0) = (b < 0) THEN q ELSE -q

-----------------------------------------------------------------------------
(* HashMap helpers *)

EmptyMap == [k \in {} |-> 0]
MapInsert(m, k, v) == [x \in (DOMAIN m) \cup {k} |-> IF x = k THEN v ELSE m[x]]
MapGetOr(m, k, default) == IF k \in DOMAIN m THEN m[k] ELSE default

-----------------------------------------------------------------------------
(* graph.rs *)

Node(id, thread_id, instruction) ==
  [id |-> id, thread_id |-> thread_id, instruction |-> instruction]

Graph_new ==
  [label_to_node |-> EmptyMap,
   instructions |-> <<>>,
   rev_edges |-> <<>>,
   active_neighbors |-> <<>>,
   is_active |-> <<>>,
   active_fence_nodes |-> {},
   execution_stack |-> <<>>,
   execution_candidates |-> {}]

is_node_active(g, id) == g.is_active[id + 1]

\* A variant of is_label_active that answers false for a label no node carries.
is_label_active_known_only(g, label) ==
  IF label \in DOMAIN g.label_to_node
  THEN is_node_active(g, g.label_to_node[label])
  ELSE FALSE

is_label_active(g, label) ==
  IF label \in DOMAIN g.label_to_node
  THEN is_node_active(g, g.label_to_node[label])
  ELSE TRUE

\* The id add_node returns is Len(g.instructions) of the graph it is given.
add_node(g, thread_id, instruction) ==
  LET id == Len(g.instructions)
  IN  [g EXCEPT
        !.label_to_node =
          IF instruction.label # <<>> THEN MapInsert(@, instruction.label[1], id) ELSE @,
        !.active_fence_nodes = IF is_fence(instruction) THEN @ \cup {id} ELSE @,
        !.instructions = Append(@, Node(id, thread_id, instruction)),
        !.rev_edges = Append(@, <<>>),
        !.active_neighbors = Append(@, 0),
        !.is_active = Append(@, TRUE),
        !.execution_candidates = @ \cup {id}]

add_edge(g, from, to) ==
  [g EXCEPT
    !.active_neighbors[from + 1] = IF g.is_active[to + 1] THEN @ + 1 ELSE @,
    !.rev_edges[to + 1] = Append(@, from),
    !.execution_candidates = @ \ {from}]

\* A variant of remove_node's loop that passes over an entry of rev_edges[id]
\* it has already met, as if rev_edges[id] were a set.
RECURSIVE remove_loop_distinct(_, _, _)
remove_loop_distinct(g, froms, k) ==
  IF k > Len(froms) THEN g
  ELSE LET from == froms[k]
           n == g.active_neighbors[from + 1] - 1
           g1 == IF g.is_active[from + 1] /\ \A m \in 1..(k - 1) : froms[m] # from
                 THEN [g EXCEPT
                        !.active_neighbors[from + 1] = n,
                        !.execution_candidates = IF n = 0 THEN @ \cup {from} ELSE @]
                 ELSE g
       IN  remove_loop_distinct(g1, froms, k + 1)

\* The body of remove_node's loop over rev_edges[id], from its k-th element on.
RECURSIVE remove_loop(_, _, _)
remove_loop(g, froms, k) ==
  IF k > Len(froms) THEN g
  ELSE LET from == froms[k]
           n == g.active_neighbors[from + 1] - 1
           g1 == IF g.is_active[from + 1]
                 THEN [g EXCEPT
                        !.active_neighbors[from + 1] = n,
                        !.execution_candidates = IF n = 0 THEN @ \cup {from} ELSE @]
                 ELSE g
       IN  remove_loop(g1, froms, k + 1)

\* A variant of remove_node without `execution_stack.push(id)`.
remove_node_unrecorded(g, id) ==
  IF ~g.is_active[id + 1] THEN g
  ELSE remove_loop(
         [g EXCEPT
           !.active_fence_nodes = @ \ {id},
           !.is_active[id + 1] = FALSE,
           !.execution_candidates = @ \ {id}],
         g.rev_edges[id + 1], 1)

remove_node(g, id) ==
  IF ~g.is_active[id + 1] THEN g
  ELSE remove_loop(
         [g EXCEPT
           !.active_fence_nodes = @ \ {id},
           !.execution_stack = Append(@, id),
           !.is_active[id + 1] = FALSE,
           !.execution_candidates = @ \ {id}],
         g.rev_edges[id + 1], 1)

\* A variant of restore_node's loop without `execution_candidates.remove(&from)`.
RECURSIVE restore_loop_keeps_candidates(_, _, _)
restore_loop_keeps_candidates(g, froms, k) ==
  IF k > Len(froms) THEN g
  ELSE LET from == froms[k]
           g1 == IF g.is_active[from + 1]
                 THEN [g EXCEPT !.active_neighbors[from + 1] = @ + 1]
                 ELSE g
       IN  restore_loop_keeps_candidates(g1, froms, k + 1)

\* The body of restore_node's loop over rev_edges[id], from its k-th element on.
RECURSIVE restore_loop(_, _, _)
restore_loop(g, froms, k) ==
  IF k > Len(froms) THEN g
  ELSE LET from == froms[k]
           n == g.active_neighbors[from + 1] + 1
           g1 == IF g.is_active[from + 1]
                 THEN [g EXCEPT
                        !.active_neighbors[from + 1] = n,
                        !.execution_candidates = IF n = 1 THEN @ \ {from} ELSE @]
                 ELSE g
       IN  restore_loop(g1, froms, k + 1)

\* A variant of restore_node without `active_fence_nodes.insert(id)`.
restore_node_forgets_fence(g) ==
  LET id == g.execution_stack[Len(g.execution_stack)]
      g1 == [g EXCEPT
              !.execution_stack = SubSeq(@, 1, Len(@) - 1),
              !.is_active[id + 1] = TRUE]
      g2 == restore_loop(g1, g.rev_edges[id + 1], 1)
  IN  [g2 EXCEPT !.execution_candidates = @ \cup {id}]

\* restore_node on a non-empty execution_stack: the graph afterwards.
restore_node(g) ==
  LET id == g.execution_stack[Len(g.execution_stack)]
      g1 == [g EXCEPT
              !.execution_stack = SubSeq(@, 1, Len(@) - 1),
              !.is_active[id + 1] = TRUE,
              !.active_fence_nodes =
                IF is_fence(g.instructions[id + 1].instruction) THEN @ \cup {id} ELSE @]
      g2 == restore_loop(g1, g.rev_edges[id + 1], 1)
  IN  [g2 EXCEPT !.execution_candidates = @ \cup {id}]

\* restore_node's return value: the label of the node on top of the stack.
restore_label(g) ==
  g.instructions[g.execution_stack[Len(g.execution_stack)] + 1].instruction.label

-----------------------------------------------------------------------------
(* threads.rs *)

RECURSIVE goto_loop_stops_above(_, _)
\* A variant of goto's loop that stops before restoring the labelled node.
goto_loop_stops_above(g0, label) ==
  CHOOSE result \in
    { IF g.execution_stack = <<>> THEN [graph |-> g, panicked |-> TRUE]
      ELSE IF restore_label(g) = <<label>> THEN [graph |-> g, panicked |-> FALSE]
      ELSE goto_loop_stops_above(restore_node(g), label) : g \in {g0} } : TRUE

RECURSIVE goto_loop(_, _)
\* The while loop of goto: restore until the restored node carries `label`.
\* restore_node unwraps the popped id, so an empty stack panics.
\* Each iteration works on one graph value g, the state of `self.nodes` when
\* the iteration starts.
goto_loop(g0, label) ==
  CHOOSE result \in
    { IF g.execution_stack = <<>> THEN [graph |-> g, panicked |-> TRUE]
      ELSE IF restore_label(g) = <<label>>
           THEN [graph |-> restore_node(g), panicked |-> FALSE]
           ELSE goto_loop(restore_node(g), label) : g \in {g0} } : TRUE

\* A variant of goto that never rewinds.
goto_never(g, label) == [graph |-> g, panicked |-> FALSE]

\* A variant of goto without the is_label_active test: it always rewinds.
goto_always_rewinds(g, label) == goto_loop(g, label)

goto(g, label) ==
  IF ~is_label_active(g, label) THEN goto_loop(g, label)
  ELSE [graph |-> g, panicked |-> FALSE]

get_register(regs, thread_id, register) == MapGetOr(regs[thread_id + 1], register, 0)

assign_register(regs, thread_id, register, value) ==
  [regs EXCEPT ![thread_id + 1] = MapInsert(@, register, value)]

RECURSIVE SC_wire_reversed(_, _, _)
\* A variant of SC_wire with the edge's ends exchanged: add_edge(previous, id).
SC_wire_reversed(g, id, instruction_ids) ==
  IF instruction_ids = <<>> THEN g
  ELSE SC_wire_reversed(add_edge(g, Head(instruction_ids), id), id, Tail(instruction_ids))

RECURSIVE SC_wire(_, _, _)
\* SCThreadSystem::new, inner loop: an edge from the new node to every
\* previous instruction of the thread.
SC_wire(g, id, instruction_ids) ==
  IF instruction_ids = <<>> THEN g
  ELSE SC_wire(add_edge(g, id, Head(instruction_ids)), id, Tail(instruction_ids))

RECURSIVE SC_add_thread(_, _, _, _)
\* SCThreadSystem::new, the loop over one thread's instructions.
SC_add_thread(g, thread_id, thread_instructions, instruction_ids) ==
  IF thread_instructions = <<>> THEN g
  ELSE LET id == Len(g.instructions)
           g1 == SC_wire(add_node(g, thread_id, Head(thread_instructions)), id, instruction_ids)
       IN  SC_add_thread(g1, thread_id, Tail(thread_instructions), Append(instruction_ids, id))

RECURSIVE SC_add_threads(_, _, _)
SC_add_threads(g, instructions, thread_id) ==
  IF thread_id >= Len(instructions) THEN g
  ELSE SC_add_threads(SC_add_thread(g, thread_id, instructions[thread_id + 1], <<>>),
                      instructions, thread_id + 1)

SCThreadSystem_new(instructions) == SC_add_threads(Graph_new, instructions, 0)

RECURSIVE add_nodes(_, _, _)
\* TSO/PSOThreadSystem::new, first loop: the thread's nodes, no edge.
add_nodes(g, thread_id, thread_instructions) ==
  IF thread_instructions = <<>> THEN g
  ELSE add_nodes(add_node(g, thread_id, Head(thread_instructions)), thread_id,
                 Tail(thread_instructions))

RECURSIVE edges_after_reversed(_, _, _, _)
\* A variant of edges_after with the edge's ends exchanged:
\* add_edge(instruction_ids[i], instruction_ids[j]).
edges_after_reversed(g, instruction_ids, i, j) ==
  IF j >= Len(instruction_ids) THEN g
  ELSE edges_after_reversed(add_edge(g, instruction_ids[i + 1], instruction_ids[j + 1]),
                            instruction_ids, i, j + 1)

RECURSIVE edges_after(_, _, _, _)
\* for j in i + 1..len: add_edge(instruction_ids[j], instruction_ids[i]), from j on.
edges_after(g, instruction_ids, i, j) ==
  IF j >= Len(instruction_ids) THEN g
  ELSE edges_after(add_edge(g, instruction_ids[j + 1], instruction_ids[i + 1]),
                   instruction_ids, i, j + 1)

\* A variant of edges_before whose loop `for j in 0..i` adds no edge.
edges_before_skipped(g, instruction_ids, i, j) == g

RECURSIVE edges_before(_, _, _, _)
\* for j in 0..i: add_edge(instruction_ids[i], instruction_ids[j]), from j on.
edges_before(g, instruction_ids, i, j) ==
  IF j >= i THEN g
  ELSE edges_before(add_edge(g, instruction_ids[i + 1], instruction_ids[j + 1]),
                    instruction_ids, i, j + 1)

\* The match on get_mode() for instruction i of the thread.
mode_edges(g, instruction_ids, mode, i) ==
  IF mode = <<"Rel">> THEN edges_after(g, instruction_ids, i, i + 1)
  ELSE IF mode = <<"Acq">> THEN edges_before(g, instruction_ids, i, 0)
  ELSE IF mode = <<"RelAcq">>
  THEN edges_after(edges_before(g, instruction_ids, i, 0), instruction_ids, i, i + 1)
  ELSE g

RECURSIVE wire_modes(_, _, _, _)
\* TSO/PSOThreadSystem::new, second loop over the thread's instructions.
wire_modes(g, instruction_ids, thread_instructions, i) ==
  IF i >= Len(thread_instructions) THEN g
  ELSE wire_modes(mode_edges(g, instruction_ids, get_mode(thread_instructions[i + 1]), i),
                  instruction_ids, thread_instructions, i + 1)

RECURSIVE weak_add_threads(_, _, _)
weak_add_threads(g, instructions, thread_id) ==
  IF thread_id >= Len(instructions) THEN g
  ELSE LET first == Len(g.instructions)
           thread_instructions == instructions[thread_id + 1]
           instruction_ids == [k \in 1..Len(thread_instructions) |-> first + k - 1]
           g1 == add_nodes(g, thread_id, thread_instructions)
       IN  weak_add_threads(wire_modes(g1, instruction_ids, thread_instructions, 0),
                            instructions, thread_id + 1)

TSOThreadSystem_new(instructions) == weak_add_threads(Graph_new, instructions, 0)

PSOThreadSystem_new(instructions) == weak_add_threads(Graph_new, instructions, 0)

RECURSIVE fence_edges_reversed(_, _, _)
\* A variant of fence_edges with the edge's ends exchanged: add_edge(id, node).
fence_edges_reversed(g, id, fence_order) ==
  IF fence_order = <<>> THEN g
  ELSE fence_edges_reversed(add_edge(g, id, Head(fence_order)), id, Tail(fence_order))

RECURSIVE fence_edges(_, _, _)
\* add_propagate_node, first loop: add_edge(node, id) for the active fence
\* nodes, in the order the HashSet yields them.
fence_edges(g, id, fence_order) ==
  IF fence_order = <<>> THEN g
  ELSE fence_edges(add_edge(g, Head(fence_order), id), id, Tail(fence_order))

RECURSIVE propagate_edges(_, _, _)
\* add_propagate_node, second loop: add_edge(id, node) for each node of `nodes`.
\* Each edge touches rev_edges[node] of a different node and adds 1 to
\* active_neighbors[id], so the HashSet's order does not show in the result.
propagate_edges(g, id, nodes) ==
  IF nodes = {} THEN g
  ELSE LET node == CHOOSE n \in nodes : \A m \in nodes : n <= m
       IN  propagate_edges(add_edge(g, id, node), id, nodes \ {node})

\* TSOThreadSystem: the pending propagates the new node is ordered after.
TSO_earlier_propagates(pn, thread_id, address) == pn[thread_id + 1]

\* A variant of PSO_earlier_propagates without the test `address == add`.
PSO_earlier_any_address(pn, thread_id, address) == {e[1] : e \in pn[thread_id + 1]}

\* PSOThreadSystem: only those of the same address.
PSO_earlier_propagates(pn, thread_id, address) ==
  {e[1] : e \in {x \in pn[thread_id + 1] : x[2] = address}}

TSO_add_propagate_node(g, pn, thread_id, address, value, fence_order) ==
  LET id == Len(g.instructions)
      g1 == add_node(g, thread_id, Plain(Propagate(thread_id, address, value)))
      g2 == fence_edges(g1, id, fence_order)
      g3 == propagate_edges(g2, id, TSO_earlier_propagates(pn, thread_id, address))
  IN  [graph |-> g3, propagate_nodes |-> [pn EXCEPT ![thread_id + 1] = @ \cup {id}]]

PSO_add_propagate_node(g, pn, thread_id, address, value, fence_order) ==
  LET id == Len(g.instructions)
      g1 == add_node(g, thread_id, Plain(Propagate(thread_id, address, value)))
      g2 == fence_edges(g1, id, fence_order)
      g3 == propagate_edges(g2, id, PSO_earlier_propagates(pn, thread_id, address))
  IN  [graph |-> g3,
       propagate_nodes |-> [pn EXCEPT ![thread_id + 1] = @ \cup {<<id, address>>}]]

\* ThreadSystem::remove_node of each variant: the propagate index afterwards.
SC_index_after_remove(pn, node) == pn

TSO_index_after_remove(pn, node) ==
  IF node.instruction.instruction.kind = "Propagate"
  THEN [pn EXCEPT ![node.thread_id + 1] = @ \ {node.id}]
  ELSE pn

PSO_index_after_remove(pn, node) ==
  IF node.instruction.instruction.kind = "Propagate"
  THEN [pn EXCEPT ![node.thread_id + 1] = @ \ {<<node.id, node.instruction.instruction.address>>}]
  ELSE pn

-----------------------------------------------------------------------------
(* storage.rs *)

\* A load that ignores its address operand and always reads address 0.
SC_load_address_zero(mem, address) == MapGetOr(mem, 0, 0)

SC_load(mem, address) == MapGetOr(mem, address, 0)

\* A variant of store that keeps the first value written to an address.
SC_store_keeps_first(mem, address, value) ==
  IF address \in DOMAIN mem THEN mem ELSE MapInsert(mem, address, value)

SC_store(mem, address, value) == MapInsert(mem, address, value)

\* Positions (1-based) of the entries of a buffer for an address.
Matching(buffer, address) == {i \in 1..Len(buffer) : buffer[i][1] = address}

Newest(buffer, address) ==
  CHOOSE i \in Matching(buffer, address) : \A j \in Matching(buffer, address) : j <= i

Oldest(buffer, address) ==
  CHOOSE i \in Matching(buffer, address) : \A j \in Matching(buffer, address) : i <= j

RemoveAt(buffer, i) == SubSeq(buffer, 1, i - 1) \o SubSeq(buffer, i + 1, Len(buffer))

\* A variant of load that searches the thread's buffer oldest-first.
TSO_load_oldest(bufs, mem, thread_id, address) ==
  IF Matching(bufs[thread_id + 1], address) # {}
  THEN bufs[thread_id + 1][Oldest(bufs[thread_id + 1], address)][2]
  ELSE MapGetOr(mem, address, 0)

\* TSOStorageSystem::load and PSOStorageSystem::load (the same text).
TSO_load(bufs, mem, thread_id, address) ==
  IF Matching(bufs[thread_id + 1], address) # {}
  THEN bufs[thread_id + 1][Newest(bufs[thread_id + 1], address)][2]
  ELSE MapGetOr(mem, address, 0)

\* A variant of store that buffers the write twice.
TSO_store_twice(bufs, thread_id, address, value) ==
  [bufs EXCEPT ![thread_id + 1] = Append(Append(@, <<address, value>>), <<address, value>>)]

TSO_store(bufs, thread_id, address, value) ==
  [bufs EXCEPT ![thread_id + 1] = Append(@, <<address, value>>)]

\* The position propagate drains: enumerate().rev().find(..) is the newest match.
propagate_position(buffer, address) == Newest(buffer, address)

\* A variant of propagate that writes memory and leaves the entry buffered.
propagate_keeps_entry(bufs, mem, thread_id, address) ==
  IF Matching(bufs[thread_id + 1], address) = {}
  THEN [buffers |-> bufs, memory |-> mem]
  ELSE LET i == propagate_position(bufs[thread_id + 1], address)
       IN  [buffers |-> bufs,
            memory |-> MapInsert(mem, address, bufs[thread_id + 1][i][2])]

\* TSOStorageSystem::propagate and PSOStorageSystem::propagate (the same text).
propagate(bufs, mem, thread_id, address) ==
  IF Matching(bufs[thread_id + 1], address) = {}
  THEN [buffers |-> bufs, memory |-> mem]
  ELSE LET i == propagate_position(bufs[thread_id + 1], address)
       IN  [buffers |-> [bufs EXCEPT ![thread_id + 1] = RemoveAt(@, i)],
            memory |-> MapInsert(mem, address, bufs[thread_id + 1][i][2])]

-----------------------------------------------------------------------------
(* The input programs: the Vec<Vec<LabeledInstruction>> main.rs parses from *)
(* the program file, one Vec per thread.                                    *)

\* S1 of the specification.
Prog_S1 ==
  << << Plain(Const("a", 7)), Plain(Const("x", 0)),
        Plain(Store("SeqCst", "x", "a")), Plain(Load("SeqCst", "x", "b")) >> >>

\* S2 of the specification.
Prog_S2 ==
  << << Plain(Const("x", 0)), Plain(Const("y", 1)), Plain(Store("Rlx", "x", "y")) >>,
     << Plain(Const("y", 0)), Plain(Const("x", 1)), Plain(Store("Rlx", "y", "x")),
        Plain(Load("Rlx", "x", "r0")) >> >>

\* S4 of the specification, with y set to 1 so that x and y hold the distinct
\* addresses 0 and 1.
Prog_S4 ==
  << << Plain(Const("y", 1)), Plain(Const("v", 1)), Plain(Store("Rlx", "x", "v")),
        Plain(Fence("SeqCst")), Plain(Store("Rlx", "y", "v")) >> >>

\* S5 of the specification, with y set to 1.
Prog_S5 ==
  << << Plain(Const("y", 1)), Plain(Const("v", 1)), Plain(Store("Rlx", "x", "v")),
        Plain(Store("Rlx", "y", "v")) >> >>

\* A loop taken once by thread 0 beside a fetch-and-add of thread 1.
Prog_LoopFai ==
  << << Plain(Const("i", 2)), Plain(Const("one", 1)),
        Labeled("L", ArithMinus("i", "i", "one")), Plain(Cond("i", "L")) >>,
     << Plain(Const("one", 1)), Plain(Fai("SeqCst", "x", "r", "one")) >> >>

\* A store inside a loop.
Prog_LoopStore ==
  << << Plain(Const("c", 1)), Labeled("L", Store("Rlx", "x", "c")),
        Plain(Cond("c", "L")) >> >>

\* A store and a fence inside a loop.
Prog_LoopFence ==
  << << Plain(Const("c", 1)), Labeled("L", Store("Rlx", "x", "c")),
        Plain(Fence("SeqCst")), Plain(Cond("c", "L")) >> >>

\* Two stores of different values to one address, then a load of it.
Prog_TwoStores ==
  << << Plain(Const("one", 1)), Plain(Const("two", 2)), Plain(Store("Rlx", "x", "one")),
        Plain(Store("Rlx", "x", "two")), Plain(Load("Rlx", "x", "r")) >> >>

\* Two threads compare-and-swap the same fresh address from 0 to 1.
Prog_CasPair ==
  << << Plain(Const("one", 1)), Plain(Cas("SeqCst", "x", "r", "zero", "one")) >>,
     << Plain(Const("one", 1)), Plain(Cas("SeqCst", "x", "r", "zero", "one")) >> >>

\* A loop whose body mixes ACQ, REL and REL_ACQ instructions.
Prog_Modes ==
  << << Plain(Const("one", 1)), Labeled("L", Load("Acq", "x", "r")),
        Plain(Store("Rel", "x", "one")), Plain(Fence("RelAcq")),
        Plain(Cond("one", "L")) >> >>

\* S3 of the specification.
Prog_S3 ==
  << << Plain(Const("i", 3)), Plain(Const("one", 1)),
        Labeled("L", ArithMinus("i", "i", "one")), Plain(Cond("i", "L")) >> >>

\* A branch to a label further on and a branch to a label no node carries.
Prog_Forward ==
  << << Plain(Const("c", 1)), Plain(Cond("c", "F")), Plain(Const("a", 5)),
        Labeled("F", Const("b", 6)), Plain(Cond("c", "U")) >> >>

\* A loop whose branch is always taken.
Prog_Spin ==
  << << Plain(Const("c", 1)), Labeled("L", Const("d", 1)), Plain(Cond("c", "L")) >> >>

Instructions(p) ==
  CASE p = "S1" -> Prog_S1
    [] p = "S2" -> Prog_S2
    [] p = "S4" -> Prog_S4
    [] p = "S5" -> Prog_S5
    [] p = "LoopFai" -> Prog_LoopFai
    [] p = "LoopStore" -> Prog_LoopStore
    [] p = "LoopFence" -> Prog_LoopFence
    [] p = "TwoStores" -> Prog_TwoStores
    [] p = "CasPair" -> Prog_CasPair
    [] p = "Modes" -> Prog_Modes
    [] p = "S3" -> Prog_S3
    [] p = "Forward" -> Prog_Forward
    [] p = "Spin" -> Prog_Spin

\* The runs explored: <<memory model, program>>.
Scenarios ==
  { <<"SC", "S1">>, <<"SC", "S2">>, <<"TSO", "S2">>,
    <<"TSO", "S4">>, <<"PSO", "S4">>, <<"TSO", "S5">>, <<"PSO", "S5">>,
    <<"SC", "LoopFai">>, <<"TSO", "LoopStore">>, <<"PSO", "LoopStore">>,
    <<"TSO", "LoopFence">>, <<"PSO", "LoopFence">>,
    <<"TSO", "TwoStores">>, <<"PSO", "TwoStores">>,
    <<"SC", "CasPair">>, <<"TSO", "CasPair">>, <<"PSO", "CasPair">>,
    <<"SC", "Modes">>, <<"TSO", "Modes">>, <<"PSO", "Modes">>,
    <<"SC", "S3">>, <<"SC", "Forward">>, <<"TSO", "Forward">>, <<"SC", "Spin">>,
    <<"TSO", "Spin">>, <<"PSO", "Spin">> }

-----------------------------------------------------------------------------
(* memory_model.rs: SC::new, TSO::new, PSO::new *)

ThreadSystem_new(m, instructions) ==
  CASE m = "SC" -> SCThreadSystem_new(instructions)
    [] m = "TSO" -> TSOThreadSystem_new(instructions)
    [] m = "PSO" -> PSOThreadSystem_new(instructions)

PerThread(instructions, x) == [t \in 1..Len(instructions) |-> x]

Init ==
  /\ \E s \in Scenarios : model = s[1] /\ program = s[2]
  /\ graph = ThreadSystem_new(model, Instructions(program))
  /\ registers = PerThread(Instructions(program), EmptyMap)
  /\ propagate_nodes = PerThread(Instructions(program), {})
  /\ buffers = PerThread(Instructions(program), <<>>)
  /\ memory = EmptyMap
  /\ panicked = FALSE
  /\ fifo_buffers = PerThread(Instructions(program), <<>>)
  /\ fifo_memory = EmptyMap
  /\ fifo_agree = TRUE
  /\ rewinds = 0
  /\ created_under = {}
  /\ before_label = EmptyMap
  /\ executions = EmptyMap

-----------------------------------------------------------------------------
(* storage.rs: cas and fai, built on load and store *)

SC_cas(mem, address, exp, des) ==
  LET value == SC_load(mem, address)
  IN  [value |-> value,
       memory |-> IF value = exp THEN SC_store(mem, address, des) ELSE mem]

SC_fai(mem, address, inc) ==
  LET value == SC_load(mem, address)
  IN  [value |-> value, memory |-> SC_store(mem, address, AddWrap(value, inc))]

\* A variant of cas that stores the desired value whatever the pre-image.
TSO_cas_always_stores(bufs, mem, thread_id, address, exp, des) ==
  [value |-> TSO_load(bufs, mem, thread_id, address),
   buffers |-> TSO_store(bufs, thread_id, address, des)]

\* TSOStorageSystem::cas and PSOStorageSystem::cas (the same text).
TSO_cas(bufs, mem, thread_id, address, exp, des) ==
  LET value == TSO_load(bufs, mem, thread_id, address)
  IN  [value |-> value,
       buffers |-> IF value = exp THEN TSO_store(bufs, thread_id, address, des) ELSE bufs]

\* TSOStorageSystem::fai and PSOStorageSystem::fai (the same text).
TSO_fai(bufs, mem, thread_id, address, inc) ==
  LET value == TSO_load(bufs, mem, thread_id, address)
  IN  [value |-> value, buffers |-> TSO_store(bufs, thread_id, address, AddWrap(value, inc))]

\* The reference storage: propagate drains the OLDEST entry for the address.
fifo_propagate(bufs, mem, thread_id, address) ==
  IF Matching(bufs[thread_id + 1], address) = {}
  THEN [buffers |-> bufs, memory |-> mem]
  ELSE LET i == Oldest(bufs[thread_id + 1], address)
       IN  [buffers |-> [bufs EXCEPT ![thread_id + 1] = RemoveAt(@, i)],
            memory |-> MapInsert(mem, address, bufs[thread_id + 1][i][2])]

-----------------------------------------------------------------------------
(* memory_model.rs: one iteration of main's loop, random_step then step *)

Weak == model \in {"TSO", "PSO"}

Instr(n) == graph.instructions[n + 1].instruction.instruction

Thread(n) == graph.instructions[n + 1].thread_id

Reg(n, register) == get_register(registers, Thread(n), register)

\* ThreadSystem::remove_node of the model's thread system.
index_after_remove(pn, node) ==
  CASE model = "SC" -> SC_index_after_remove(pn, node)
    [] model = "TSO" -> TSO_index_after_remove(pn, node)
    [] model = "PSO" -> PSO_index_after_remove(pn, node)

add_propagate_node(g, pn, thread_id, address, value, fence_order) ==
  IF model = "TSO"
  THEN TSO_add_propagate_node(g, pn, thread_id, address, value, fence_order)
  ELSE PSO_add_propagate_node(g, pn, thread_id, address, value, fence_order)

\* The orders in which iterating a HashSet may yield its elements.
Orders(S) ==
  {o \in [1..Cardinality(S) -> S] : \A i, j \in 1..Cardinality(S) : i # j => o[i] # o[j]}

\* The i32 an arithmetic instruction yields when it does not panic.
arith(kind, a, b) ==
  CASE kind = "ArithPlus" -> AddWrap(a, b)
    [] kind = "ArithMinus" -> SubWrap(a, b)
    [] kind = "ArithMul" -> MulWrap(a, b)
    [] kind = "ArithDiv" -> TruncDiv(a, b)

\* Whether the exact result leaves i32.
arith_overflows(kind, a, b) ==
  CASE kind = "ArithPlus" -> AddOverflows(a, b)
    [] kind = "ArithMinus" -> SubOverflows(a, b)
    [] kind = "ArithMul" -> MulOverflows(a, b)
    [] kind = "ArithDiv" -> DivOverflows(a, b)

step_Const(n) ==
  /\ Instr(n).kind = "Const"
  /\ graph' = remove_node(graph, n)
  /\ propagate_nodes' = index_after_remove(propagate_nodes, graph.instructions[n + 1])
  /\ registers' = assign_register(registers, Thread(n), Instr(n).r, Instr(n).value)
  /\ UNCHANGED <<model, program, rewinds, buffers, memory, panicked,
                 fifo_buffers, fifo_memory, fifo_agree>>

\* `+`, `-` and `*` panic on overflow in a build with overflow checks and wrap
\* in one without; `/` panics on a zero divisor and on overflow in every build.
step_Arith(n) ==
  /\ Instr(n).kind \in {"ArithPlus", "ArithMinus", "ArithMul", "ArithDiv"}
  /\ graph' = remove_node(graph, n)
  /\ propagate_nodes' = index_after_remove(propagate_nodes, graph.instructions[n + 1])
  /\ LET kind == Instr(n).kind
         r2_value == Reg(n, Instr(n).r2)
         r3_value == Reg(n, Instr(n).r3)
         by_zero == kind = "ArithDiv" /\ r3_value = 0
     IN  \E overflow_checks \in BOOLEAN :
           IF by_zero \/ (arith_overflows(kind, r2_value, r3_value)
                           /\ (overflow_checks \/ kind = "ArithDiv"))
           THEN panicked' = TRUE /\ registers' = registers
           ELSE /\ panicked' = panicked
                /\ registers' = assign_register(registers, Thread(n), Instr(n).r1,
                                                arith(kind, r2_value, r3_value))
  /\ UNCHANGED <<model, program, rewinds, buffers, memory, fifo_buffers, fifo_memory, fifo_agree>>

\* A variant of the Cond step whose backward jump also clears the registers of
\* the thread.
step_Cond_rolls_back(n) ==
  /\ Instr(n).kind = "Cond"
  /\ propagate_nodes' = index_after_remove(propagate_nodes, graph.instructions[n + 1])
  /\ LET g1 == remove_node(graph, n)
         value == Reg(n, Instr(n).r)
         backward == value # 0 /\ ~is_label_active(g1, Instr(n).label)
     IN  /\ (backward /\ Weak) => rewinds < MaxRewinds
         /\ rewinds' = IF backward /\ rewinds < MaxRewinds THEN rewinds + 1 ELSE rewinds
         /\ IF value # 0
            THEN /\ graph' = goto(g1, Instr(n).label).graph
                 /\ panicked' = goto(g1, Instr(n).label).panicked
            ELSE graph' = g1 /\ panicked' = panicked
  /\ registers' =
       IF Reg(n, Instr(n).r) # 0 /\ ~is_label_active(remove_node(graph, n), Instr(n).label)
       THEN [registers EXCEPT ![Thread(n) + 1] = EmptyMap]
       ELSE registers
  /\ UNCHANGED <<model, program, buffers, memory,
                 fifo_buffers, fifo_memory, fifo_agree>>

step_Cond(n) ==
  /\ Instr(n).kind = "Cond"
  /\ propagate_nodes' = index_after_remove(propagate_nodes, graph.instructions[n + 1])
  /\ LET g1 == remove_node(graph, n)
         value == Reg(n, Instr(n).r)
         backward == value # 0 /\ ~is_label_active(g1, Instr(n).label)
     IN  /\ (backward /\ Weak) => rewinds < MaxRewinds
         /\ rewinds' = IF backward /\ rewinds < MaxRewinds THEN rewinds + 1 ELSE rewinds
         /\ IF value # 0
            THEN /\ graph' = goto(g1, Instr(n).label).graph
                 /\ panicked' = goto(g1, Instr(n).label).panicked
            ELSE graph' = g1 /\ panicked' = panicked
  /\ UNCHANGED <<model, program, registers, buffers, memory,
                 fifo_buffers, fifo_memory, fifo_agree>>

step_Load(n) ==
  /\ Instr(n).kind = "Load"
  /\ graph' = remove_node(graph, n)
  /\ propagate_nodes' = index_after_remove(propagate_nodes, graph.instructions[n + 1])
  /\ LET address_value == Reg(n, Instr(n).address)
         value == IF Weak THEN TSO_load(buffers, memory, Thread(n), address_value)
                  ELSE SC_load(memory, address_value)
     IN  /\ registers' = assign_register(registers, Thread(n), Instr(n).r, value)
         /\ fifo_agree' =
              IF Weak
              THEN fifo_agree /\ value = TSO_load(fifo_buffers, fifo_memory, Thread(n), address_value)
              ELSE fifo_agree
  /\ UNCHANGED <<model, program, rewinds, buffers, memory, panicked, fifo_buffers, fifo_memory>>

step_Store(n) ==
  /\ Instr(n).kind = "Store"
  /\ LET g1 == remove_node(graph, n)
         pn1 == index_after_remove(propagate_nodes, graph.instructions[n + 1])
         address_value == Reg(n, Instr(n).address)
         value == Reg(n, Instr(n).r)
     IN  IF Weak
         THEN /\ buffers' = TSO_store(buffers, Thread(n), address_value, value)
              /\ fifo_buffers' = TSO_store(fifo_buffers, Thread(n), address_value, value)
              /\ \E fence_order \in Orders(g1.active_fence_nodes) :
                   LET added == add_propagate_node(g1, pn1, Thread(n), address_value, value,
                                                   fence_order)
                   IN  graph' = added.graph /\ propagate_nodes' = added.propagate_nodes
              /\ UNCHANGED memory
         ELSE /\ memory' = SC_store(memory, address_value, value)
              /\ graph' = g1
              /\ propagate_nodes' = pn1
              /\ UNCHANGED <<buffers, fifo_buffers>>
  /\ UNCHANGED <<model, program, rewinds, registers, panicked, fifo_memory, fifo_agree>>

step_Cas(n) ==
  /\ Instr(n).kind = "Cas"
  /\ LET g1 == remove_node(graph, n)
         pn1 == index_after_remove(propagate_nodes, graph.instructions[n + 1])
         address_value == Reg(n, Instr(n).address)
         exp_value == Reg(n, Instr(n).exp)
         des_value == Reg(n, Instr(n).des)
     IN  IF Weak
         THEN LET done == TSO_cas(buffers, memory, Thread(n), address_value, exp_value, des_value)
                  ref == TSO_cas(fifo_buffers, fifo_memory, Thread(n), address_value,
                                 exp_value, des_value)
              IN  /\ buffers' = done.buffers
                  /\ fifo_buffers' = ref.buffers
                  /\ fifo_agree' = (fifo_agree /\ done.value = ref.value)
                  /\ registers' = assign_register(registers, Thread(n), Instr(n).to, done.value)
                  /\ IF done.value = exp_value
                     THEN /\ \E fence_order \in Orders(g1.active_fence_nodes) :
                               LET added == add_propagate_node(g1, pn1, Thread(n), address_value,
                                                               des_value, fence_order)
                               IN  graph' = added.graph /\ propagate_nodes' = added.propagate_nodes
                     ELSE graph' = g1 /\ propagate_nodes' = pn1
                  /\ UNCHANGED memory
         ELSE LET done == SC_cas(memory, address_value, exp_value, des_value)
              IN  /\ memory' = done.memory
                  /\ registers' = assign_register(registers, Thread(n), Instr(n).to, done.value)
                  /\ graph' = g1
                  /\ propagate_nodes' = pn1
                  /\ UNCHANGED <<buffers, fifo_buffers, fifo_agree>>
  /\ UNCHANGED <<model, program, rewinds, panicked, fifo_memory>>

\* `value + inc` panics on overflow in a build with overflow checks (the
\* storage system's sum comes first) and wraps in one without.
step_Fai(n) ==
  /\ Instr(n).kind = "Fai"
  /\ LET g1 == remove_node(graph, n)
         pn1 == index_after_remove(propagate_nodes, graph.instructions[n + 1])
         address_value == Reg(n, Instr(n).address)
         inc_value == Reg(n, Instr(n).inc)
         done == IF Weak THEN TSO_fai(buffers, memory, Thread(n), address_value, inc_value)
                 ELSE SC_fai(memory, address_value, inc_value)
         ref == TSO_fai(fifo_buffers, fifo_memory, Thread(n), address_value, inc_value)
     IN  \E overflow_checks \in BOOLEAN :
           IF AddOverflows(done.value, inc_value) /\ overflow_checks
           THEN /\ panicked' = TRUE
                /\ graph' = g1
                /\ propagate_nodes' = pn1
                /\ UNCHANGED <<registers, buffers, memory, fifo_buffers, fifo_agree>>
           ELSE /\ panicked' = panicked
                /\ registers' = assign_register(registers, Thread(n), Instr(n).to, done.value)
                /\ IF Weak
                   THEN /\ buffers' = done.buffers
                        /\ fifo_buffers' = ref.buffers
                        /\ fifo_agree' = (fifo_agree /\ done.value = ref.value)
                        /\ \E fence_order \in Orders(g1.active_fence_nodes) :
                             LET added == add_propagate_node(g1, pn1, Thread(n), address_value,
                                            AddWrap(done.value, inc_value), fence_order)
                             IN  graph' = added.graph /\ propagate_nodes' = added.propagate_nodes
                        /\ UNCHANGED memory
                   ELSE /\ memory' = done.memory
                        /\ graph' = g1
                        /\ propagate_nodes' = pn1
                        /\ UNCHANGED <<buffers, fifo_buffers, fifo_agree>>
  /\ UNCHANGED <<model, program, rewinds, fifo_memory>>

step_Fence(n) ==
  /\ Instr(n).kind = "Fence"
  /\ graph' = remove_node(graph, n)
  /\ propagate_nodes' = index_after_remove(propagate_nodes, graph.instructions[n + 1])
  /\ UNCHANGED <<model, program, rewinds, registers, buffers, memory, panicked,
                 fifo_buffers, fifo_memory, fifo_agree>>

\* SC::step does nothing for a Propagate; TSO::step and PSO::step call
\* storage_system.propagate with the instruction's thread_id and address.
step_Propagate(n) ==
  /\ Instr(n).kind = "Propagate"
  /\ graph' = remove_node(graph, n)
  /\ propagate_nodes' = index_after_remove(propagate_nodes, graph.instructions[n + 1])
  /\ IF Weak
     THEN LET done == propagate(buffers, memory, Instr(n).thread_id, Instr(n).address)
              ref == fifo_propagate(fifo_buffers, fifo_memory, Instr(n).thread_id,
                                    Instr(n).address)
          IN  /\ buffers' = done.buffers
              /\ memory' = done.memory
              /\ fifo_buffers' = ref.buffers
              /\ fifo_memory' = ref.memory
     ELSE UNCHANGED <<buffers, memory, fifo_buffers, fifo_memory>>
  /\ UNCHANGED <<model, program, rewinds, registers, panicked, fifo_agree>>

\* main's loop runs random_step while a candidate exists; random_step picks
\* any candidate and step dispatches on its instruction.  A panic ends the
\* process.
Runnable == IF panicked THEN {} ELSE graph.execution_candidates

\* The part of the graph a backward jump is said to bring back.
Snapshot(g) ==
  [is_active |-> g.is_active,
   execution_candidates |-> g.execution_candidates,
   active_fence_nodes |-> g.active_fence_nodes,
   active_neighbors |-> g.active_neighbors,
   execution_stack |-> g.execution_stack]

\* History kept beside the step of node n.  When the step adds a node to the
\* graph, the new node is a Propagate and the fences active at that moment are
\* those of the graph after remove_node(n).  When n carries a label, the
\* graph as it is before the step is remembered under that label.  The step
\* is counted as one more execution of n.
Track(n) ==
  /\ created_under' =
       IF Len(graph'.instructions) > Len(graph.instructions)
       THEN created_under \cup
              {<<f, Len(graph.instructions)>> : f \in remove_node(graph, n).active_fence_nodes}
       ELSE created_under
  /\ before_label' =
       IF graph.instructions[n + 1].instruction.label # <<>>
       THEN MapInsert(before_label, graph.instructions[n + 1].instruction.label[1],
                      Snapshot(graph))
       ELSE before_label
  /\ executions' =
       MapInsert(executions, n,
                 IF MapGetOr(executions, n, 0) < MaxCount
                 THEN MapGetOr(executions, n, 0) + 1 ELSE MaxCount)

StepConst == \E n \in Runnable : step_Const(n) /\ Track(n)

StepArith == \E n \in Runnable : step_Arith(n) /\ Track(n)

StepCond == \E n \in Runnable : step_Cond(n) /\ Track(n)

StepLoad == \E n \in Runnable : step_Load(n) /\ Track(n)

StepStore == \E n \in Runnable : step_Store(n) /\ Track(n)

StepCas == \E n \in Runnable : step_Cas(n) /\ Track(n)

StepFai == \E n \in Runnable : step_Fai(n) /\ Track(n)

StepFence == \E n \in Runnable : step_Fence(n) /\ Track(n)

StepPropagate == \E n \in Runnable : step_Propagate(n) /\ Track(n)

Next ==
  \/ StepConst
  \/ StepArith
  \/ StepCond
  \/ StepLoad
  \/ StepStore
  \/ StepCas
  \/ StepFai
  \/ StepFence
  \/ StepPropagate

Spec == Init /\ [][Next]_vars

\* main's loop `while model.get_possible_executions().len() > 0` takes a step
\* whenever one is possible.
FairSpec == Spec /\ WF_vars(Next)

-----------------------------------------------------------------------------
(* Vocabulary of the properties *)

NodeIds == 0..(Len(graph.instructions) - 1)

Active(n) == graph.is_active[n + 1]

Executed(n) == ~graph.is_active[n + 1]

PropagateIds == {n \in NodeIds : Instr(n).kind = "Propagate"}

FenceIds == {n \in NodeIds : Instr(n).kind = "Fence"}

\* The nodes of a thread's program, in program order by id.
ProgramNodes(t) == {n \in NodeIds : Thread(n) = t /\ Instr(n).kind # "Propagate"}

ThreadIds == 0..(Len(registers) - 1)

InSeq(x, seq) == \E i \in 1..Len(seq) : seq[i] = x

\* main's loop has ended: no candidate is left.
Finished == graph.execution_candidates = {} /\ ~panicked

\* Position of an executed node on the execution stack (no rewind has
\* happened in the runs this is used for, so the position is unique).
StackPos(n) == CHOOSE i \in 1..Len(graph.execution_stack) : graph.execution_stack[i] = n

ExecutedBefore(m, n) == Executed(m) /\ Executed(n) /\ StackPos(m) < StackPos(n)

\* In a one-thread program whose only buffered writes are Stores and which
\* has taken no backward jump, the Propagate node created by the executed
\* Store s: nodes are numbered in creation order after the program's own.
PropagateOf(s) ==
  Len(Instructions(program)[1])
    + Cardinality({c \in NodeIds : Instr(c).kind = "Store" /\ ExecutedBefore(c, s)})

\* The store s has been executed and its buffered write drained to memory.
StoreFlushed(s) == Executed(s) /\ Executed(PropagateOf(s))

StoreBuffered(s) == Executed(s) /\ Active(PropagateOf(s))

-----------------------------------------------------------------------------
(* C1 *)

\* C1: under SC, each thread contributes at most one execution candidate, the
\* earliest still-active instruction of the thread in program order, and no
\* instruction of a thread is executed while an earlier one is still active.
C1_SCHeads ==
  model = "SC" =>
    \A t \in ThreadIds :
      LET act == {n \in ProgramNodes(t) : Active(n)}
          cand == {n \in graph.execution_candidates : Thread(n) = t}
      IN  /\ cand = {n \in act : \A m \in act : n <= m}
          /\ Cardinality(cand) <= 1
          /\ \A i, j \in ProgramNodes(t) : (i < j /\ Active(i)) => Active(j)

\* Both threads of the looping program have a head after a backward jump.
C1_Witness ==
  /\ model = "SC" /\ program = "LoopFai" /\ rewinds = 1
  /\ Cardinality(graph.execution_candidates) = 2
  /\ \E n \in NodeIds : Executed(n)

-----------------------------------------------------------------------------
(* C2 *)

\* The sequential reference: a state is each thread's position (1-based) in
\* its own instruction list, the registers and one shared memory; a step runs
\* the instruction at one thread's position, and a taken branch moves that
\* thread to the instruction carrying the label in its own list.
LabelPositions(thread_instructions, label) ==
  {i \in 1..Len(thread_instructions) : thread_instructions[i].label = <<label>>}

SeqInit(prog) ==
  [pcs |-> [t \in 1..Len(prog) |-> 1],
   regs |-> [t \in 1..Len(prog) |-> EmptyMap],
   mem |-> EmptyMap]

SeqStep(prog, st, t) ==
  LET ins == prog[t + 1][st.pcs[t + 1]].instruction
      next == [st EXCEPT !.pcs[t + 1] = @ + 1]
      targets == LabelPositions(prog[t + 1], ins.label)
  IN  CASE ins.kind = "Const" ->
             [next EXCEPT !.regs = assign_register(@, t, ins.r, ins.value)]
        [] ins.kind \in {"ArithPlus", "ArithMinus", "ArithMul", "ArithDiv"} ->
             [next EXCEPT !.regs =
                assign_register(@, t, ins.r1,
                  arith(ins.kind, get_register(st.regs, t, ins.r2),
                        get_register(st.regs, t, ins.r3)))]
        [] ins.kind = "Cond" ->
             IF get_register(st.regs, t, ins.r) # 0 /\ targets # {}
             THEN [st EXCEPT !.pcs[t + 1] = CHOOSE i \in targets : \A j \in targets : i <= j]
             ELSE next
        [] ins.kind = "Load" ->
             [next EXCEPT !.regs =
                assign_register(@, t, ins.r,
                  MapGetOr(st.mem, get_register(st.regs, t, ins.address), 0))]
        [] ins.kind = "Store" ->
             [next EXCEPT !.mem =
                MapInsert(@, get_register(st.regs, t, ins.address),
                          get_register(st.regs, t, ins.r))]
        [] ins.kind = "Cas" ->
             LET a == get_register(st.regs, t, ins.address)
                 old == MapGetOr(st.mem, a, 0)
             IN  [next EXCEPT
                   !.regs = assign_register(@, t, ins.to, old),
                   !.mem = IF old = get_register(st.regs, t, ins.exp)
                           THEN MapInsert(@, a, get_register(st.regs, t, ins.des))
                           ELSE @]
        [] ins.kind = "Fai" ->
             LET a == get_register(st.regs, t, ins.address)
                 old == MapGetOr(st.mem, a, 0)
             IN  [next EXCEPT
                   !.regs = assign_register(@, t, ins.to, old),
                   !.mem = MapInsert(@, a, AddWrap(old, get_register(st.regs, t, ins.inc)))]
        [] ins.kind = "Fence" -> next

RECURSIVE SeqFinals(_, _, _)
\* The final memories of the sequential interleavings of at most `fuel` steps.
SeqFinals(prog, st, fuel) ==
  LET ready == {t \in 0..(Len(prog) - 1) : st.pcs[t + 1] <= Len(prog[t + 1])}
  IN  IF ready = {} THEN {st.mem}
      ELSE IF fuel = 0 THEN {}
      ELSE UNION {SeqFinals(prog, SeqStep(prog, st, t), fuel - 1) : t \in ready}

\* C2: under SC, the final memory of every run is the final memory of some
\* sequential interleaving of the per-thread programs, each thread executing
\* its instructions in program order with its own control flow.
C2_SCOutcomeIsSequential ==
  (model = "SC" /\ Finished) =>
    memory \in SeqFinals(Instructions(program), SeqInit(Instructions(program)), MaxSeqSteps)

-----------------------------------------------------------------------------
(* C3, C4 *)

\* The step executes node n: n is active before it and inactive after it.
ExecutedByStep(n) == graph.is_active[n + 1] /\ ~graph'.is_active[n + 1]

\* C3: under TSO, of two Propagate nodes p, q of one thread with p created
\* before q (p < q), q is never executed while p is still active, whatever
\* their addresses.
C3_TSOPropagateFifo ==
  [][model = "TSO" =>
       \A p, q \in PropagateIds :
         (Thread(p) = Thread(q) /\ p < q /\ ExecutedByStep(q)) => ~Active(p)]_vars

\* C4: under PSO, of two Propagate nodes p, q of one thread and one address
\* with p created before q, q is never executed while p is still active; and
\* Propagate nodes of one thread for different addresses have no ordering
\* edge between them.
C4_PSOPropagateFifoPerAddress ==
  [][model = "PSO" =>
       \A p, q \in PropagateIds :
         (Thread(p) = Thread(q) /\ p < q) =>
           IF Instr(p).address = Instr(q).address
           THEN ExecutedByStep(q) => ~Active(p)
           ELSE /\ ~InSeq(q, graph.rev_edges[p + 1])
                /\ ~InSeq(p, graph.rev_edges[q + 1])]_vars

-----------------------------------------------------------------------------
(* C5 *)

\* C5: under TSO and PSO, the storage whose propagate drains the newest entry
\* for the address and the one that drains the oldest, fed the same calls,
\* give the same load, cas and fai results at every step and hold the same
\* shared memory after every Propagate and at termination.
C5_NewestDrainEqualsOldestDrain ==
  Weak => (fifo_agree /\ memory = fifo_memory)

-----------------------------------------------------------------------------
(* C6, C7, C8 *)

\* C6: under TSO, for one thread running `store RLX x v; fence SEQ_CST;
\* store RLX y v` with x and y holding distinct addresses (program S4: nodes
\* 2, 3 and 4), in every state where the store to y has been flushed to shared
\* memory the store to x has been flushed too.
\* The store to y counts once it ran with y = 1 set (node 0), so that it wrote
\* address 1 while x holds address 0.
C6_FenceKeepsFlushOrder ==
  (model = "TSO" /\ program = "S4") =>
    ((ExecutedBefore(0, 4) /\ StoreFlushed(4)) => (Executed(2) /\ StoreFlushed(2)))

\* C7: under TSO, for one thread that stores to address x and later in
\* program order to a different address y (program S5: nodes 2 and 3), no run
\* executes the propagate of y before the propagate of x.
\* As in C6, the store to y counts once it ran with y = 1 set (node 0).
C7_TSOStoresFlushInProgramOrder ==
  (model = "TSO" /\ program = "S5") =>
    ((ExecutedBefore(0, 3) /\ StoreFlushed(3)) => (Executed(2) /\ StoreFlushed(2)))

\* C8: under PSO, for one thread that stores to x and then to a different
\* address y, some run executes the propagate of y before the propagate of x.
\* What makes that run possible: a pending Propagate node is held back only
\* by an older pending Propagate of the same thread and the same address, so
\* in S5 (no fence) any other pending Propagate is an execution candidate.
C8_PSOPropagateOnlyWaitsSameAddress ==
  (model = "PSO" /\ program = "S5") =>
    \A q \in PropagateIds :
      (Active(q) /\ ~\E p \in PropagateIds :
                       /\ Active(p) /\ p < q /\ Thread(p) = Thread(q)
                       /\ Instr(p).address = Instr(q).address)
        => q \in graph.execution_candidates

\* The run C8 speaks of: x was stored to address 0 and then y to address 1,
\* and shared memory shows y written while x's write is still buffered.
C8_Witness ==
  /\ model = "PSO" /\ program = "S5"
  /\ ExecutedBefore(0, 3) /\ ExecutedBefore(1, 2) /\ ExecutedBefore(2, 3)
  /\ Executed(3) /\ StoreFlushed(3)
  /\ StoreBuffered(2)
  /\ MapGetOr(memory, 1, 0) = 1
  /\ 0 \notin DOMAIN memory
  /\ buffers[1] = << <<0, 1>> >>

-----------------------------------------------------------------------------
(* C9 *)

\* In S2 thread 1 is nodes 3 (y = 0), 4 (x = 1), 5 (store RLX y x) and
\* 6 (load RLX x r0); thread 0 is nodes 0, 1 and 2 (store RLX x y).
S2_Loaded == get_register(registers, 1, "r0")

\* C9 as stated: some TSO run of S2 ends with the loaded value 0 while another
\* thread's store is still buffered, and no SC run of S2 ends with the loaded
\* value equal to 0.  The part about SC is an invariant:
C9_NoSCRunLoadsZero ==
  (model = "SC" /\ program = "S2" /\ Finished) => S2_Loaded # 0

\* C9 amended: thread 1's load reads address 1 (its own x), which no thread
\* of S2 writes; every SC run ends with the loaded value 0, and so does every
\* TSO run in which the load executes after `x = 1`.
C9_S2LoadsZero ==
  (program = "S2" /\ Executed(6)) =>
    /\ model = "SC" => S2_Loaded = 0
    /\ (model = "TSO" /\ ExecutedBefore(4, 6)) => S2_Loaded = 0

\* The TSO run: thread 1 has run in program order and loaded 0 while thread
\* 0's store is still in thread 0's buffer.
C9_Witness ==
  /\ model = "TSO" /\ program = "S2"
  /\ ExecutedBefore(3, 4) /\ ExecutedBefore(4, 5) /\ ExecutedBefore(5, 6)
  /\ S2_Loaded = 0
  /\ "r0" \in DOMAIN registers[2]
  /\ buffers[1] = << <<0, 1>> >>

-----------------------------------------------------------------------------
(* C10 *)

\* Fence node f was active when add_propagate_node created Propagate node p.
FenceAtCreation(f, p) == <<f, p>> \in created_under

\* C10 as stated: under TSO and PSO, a Propagate node created while a Fence
\* node is active is not a candidate and is not executed until that fence has
\* been executed.
C10_PropagateWaitsOnFence ==
  Weak =>
    \A f, p \in NodeIds :
      (FenceAtCreation(f, p) /\ Active(f)) =>
        (Active(p) /\ p \notin graph.execution_candidates)

\* C10 amended: it is the fence that waits.  Under TSO and PSO, while a
\* Propagate node created when a Fence node was active is itself still active,
\* that fence is active and is not a candidate, so the fence is not executed
\* before the propagate.
C10_FenceWaitsOnPropagate ==
  Weak =>
    \A f, p \in NodeIds :
      (FenceAtCreation(f, p) /\ Active(p)) =>
        (Active(f) /\ f \notin graph.execution_candidates)

\* A fence held back by a pending propagate that is itself a candidate.
C10_Witness ==
  /\ Weak
  /\ \E f, p \in NodeIds :
       /\ FenceAtCreation(f, p) /\ Active(p) /\ Active(f)
       /\ p \in graph.execution_candidates
       /\ f \notin graph.execution_candidates
       /\ graph.active_neighbors[f + 1] = 1

-----------------------------------------------------------------------------
(* C11, C12, C13 *)

\* The instructions of node n's thread that precede n in program order.
EarlierInThread(n) == {j \in ProgramNodes(Thread(n)) : j < n}

LaterInThread(n) == {j \in ProgramNodes(Thread(n)) : j > n}

ModeOf(n) == get_mode(graph.instructions[n + 1].instruction)

\* C11: in every model, a Fence node is never executed while an instruction
\* that precedes it in its thread's program order is still active.
C11_FenceAfterEarlierInstructions ==
  [][\A f \in FenceIds :
       ExecutedByStep(f) => \A j \in EarlierInThread(f) : ~Active(j)]_vars

\* C12: under TSO and PSO, when instruction i of a thread has mode REL or
\* REL_ACQ, no instruction j > i of the thread is executed while i is active.
C12_LaterWaitForRelease ==
  [][Weak =>
       \A i \in NodeIds :
         (ModeOf(i) \in {<<"Rel">>, <<"RelAcq">>} /\ Active(i)) =>
           \A j \in LaterInThread(i) : ~ExecutedByStep(j)]_vars

\* A release store still pending while the instruction before it, which it
\* does not wait for, and the instructions after it are active; those after
\* it are held back.
C12_Witness ==
  /\ Weak /\ program = "Modes" /\ rewinds = 1
  /\ Active(2) /\ ModeOf(2) = <<"Rel">>
  /\ Active(3) /\ Active(4)
  /\ 2 \in graph.execution_candidates
  /\ 3 \notin graph.execution_candidates /\ 4 \notin graph.execution_candidates

\* C13: under TSO and PSO, when instruction i of a thread has mode ACQ or
\* REL_ACQ, i is not executed while an instruction j < i of the thread is
\* active.
C13_AcquireWaitsForEarlier ==
  [][Weak =>
       \A i \in NodeIds :
         (ModeOf(i) \in {<<"Acq">>, <<"RelAcq">>} /\ ExecutedByStep(i)) =>
           \A j \in EarlierInThread(i) : ~Active(j)]_vars

\* The acquire load and the REL_ACQ fence have both executed, each after all
\* the instructions before it.
C13_Witness ==
  /\ Weak /\ program = "Modes" /\ rewinds = 0
  /\ ExecutedBefore(0, 1) /\ ExecutedBefore(1, 2) /\ ExecutedBefore(2, 3)
  /\ ModeOf(1) = <<"Acq">> /\ ModeOf(3) = <<"RelAcq">>
  /\ Active(4)

-----------------------------------------------------------------------------
(* C14 *)

\* The active Propagate nodes of thread t in graph g.
PendingPropagates(g, t) ==
  {p \in 0..(Len(g.instructions) - 1) :
     /\ g.instructions[p + 1].instruction.instruction.kind = "Propagate"
     /\ g.instructions[p + 1].thread_id = t
     /\ g.is_active[p + 1]}

\* What a thread reads at an address: the newest entry of its own buffer,
\* else shared memory, else 0.
PreImage(t, a) ==
  LET own == {i \in 1..Len(buffers[t + 1]) : buffers[t + 1][i][1] = a}
  IN  IF own # {}
      THEN buffers[t + 1][CHOOSE i \in own : \A k \in own : k <= i][2]
      ELSE IF a \in DOMAIN memory THEN memory[a] ELSE 0

\* C14: under TSO and PSO, a CAS whose pre-image differs from the expected
\* value leaves the pending Propagate nodes of its thread and the thread's
\* buffer unchanged; a CAS whose pre-image equals the expected value adds
\* exactly one pending Propagate node, for the CAS address and the desired
\* value, and exactly one buffer entry.
C14_CasPropagateCount ==
  [][Weak =>
       \A n \in NodeIds :
         (Instr(n).kind = "Cas" /\ ExecutedByStep(n)) =>
           LET t == Thread(n)
               a == Reg(n, Instr(n).address)
               exp == Reg(n, Instr(n).exp)
               des == Reg(n, Instr(n).des)
               new == Len(graph.instructions)
           IN  IF PreImage(t, a) # exp
               THEN /\ PendingPropagates(graph', t) = PendingPropagates(graph, t)
                    /\ propagate_nodes'[t + 1] = propagate_nodes[t + 1]
                    /\ buffers'[t + 1] = buffers[t + 1]
               ELSE /\ PendingPropagates(graph', t) = PendingPropagates(graph, t) \cup {new}
                    /\ Cardinality(propagate_nodes'[t + 1])
                         = Cardinality(propagate_nodes[t + 1]) + 1
                    /\ graph'.instructions[new + 1].instruction.instruction
                         = Propagate(t, a, des)
                    /\ buffers'[t + 1] = Append(buffers[t + 1], <<a, des>>)]_vars

\* Both CAS of CasPair have executed under TSO or PSO: thread 0's succeeded
\* (pre-image 0) and was drained to memory, thread 1's then failed (pre-image
\* 1), leaving thread 1 without any Propagate node and with an empty buffer.
C14_Witness ==
  /\ Weak /\ program = "CasPair"
  /\ ExecutedBefore(1, 3)
  /\ get_register(registers, 0, "r") = 0
  /\ get_register(registers, 1, "r") = 1
  /\ "r" \in DOMAIN registers[1] /\ "r" \in DOMAIN registers[2]
  /\ \E p \in PropagateIds : Thread(p) = 0 /\ Executed(p)
  /\ \A p \in PropagateIds : Thread(p) = 0
  /\ buffers[2] = <<>>

-----------------------------------------------------------------------------
(* C15 *)

\* C15: under TSO and PSO, a load by thread t of address a returns the value
\* of the newest entry for a in t's own buffer if there is one, otherwise
\* shared memory at a, otherwise 0 (so never a value held only in another
\* thread's buffer), and it changes neither the buffers nor memory.
C15_LoadReadsOwnNewest ==
  [][Weak =>
       \A n \in NodeIds :
         (Instr(n).kind = "Load" /\ ExecutedByStep(n)) =>
           /\ get_register(registers', Thread(n), Instr(n).r)
                = PreImage(Thread(n), Reg(n, Instr(n).address))
           /\ Instr(n).r \in DOMAIN registers'[Thread(n) + 1]
           /\ buffers' = buffers
           /\ memory' = memory]_vars

\* TwoStores: the load has returned 2, the newer of the two entries for
\* address 0 that its thread's buffer still holds, while memory is empty.
C15_Witness ==
  /\ Weak /\ program = "TwoStores"
  /\ Executed(4)
  /\ buffers[1] = << <<0, 1>>, <<0, 2>> >>
  /\ memory = EmptyMap
  /\ "r" \in DOMAIN registers[1]
  /\ get_register(registers, 0, "r") = 2

-----------------------------------------------------------------------------
(* C16 *)

\* C16: under TSO and PSO, executing a Propagate(t, a, v) node removes the
\* oldest entry for address a from thread t's buffer and sets shared memory
\* at a to the node's value v.
C16_PropagateDrainsOldest ==
  [][Weak =>
       \A p \in NodeIds :
         (Instr(p).kind = "Propagate" /\ ExecutedByStep(p)) =>
           LET t == Instr(p).thread_id
               a == Instr(p).address
               own == {i \in 1..Len(buffers[t + 1]) : buffers[t + 1][i][1] = a}
               oldest == CHOOSE i \in own : \A k \in own : i <= k
           IN  own # {} =>
                 /\ buffers'[t + 1] =
                      [i \in 1..(Len(buffers[t + 1]) - 1) |->
                         IF i < oldest THEN buffers[t + 1][i] ELSE buffers[t + 1][i + 1]]
                 /\ a \in DOMAIN memory' /\ memory'[a] = Instr(p).value]_vars

\* C16, the case it names: one thread stores v1 and then v2 to one address
\* (TwoStores: 1 by node 2, then 2 by node 3, address 0); once both
\* propagates have executed, shared memory holds v2.
C16_TwoStoresEndWithSecond ==
  (Weak /\ program = "TwoStores" /\ ExecutedBefore(0, 2) /\ ExecutedBefore(1, 3)
     /\ ExecutedBefore(2, 3) /\ Finished)
    => MapGetOr(memory, 0, 0) = 2

-----------------------------------------------------------------------------
(* C17 *)

\* The CAS of thread t in CasPair has executed, with `one = 1` before it, and
\* succeeded: its pre-image, written to r, equals the expected value 0.
CasPairSucceeded(t) ==
  /\ ExecutedBefore(2 * t, 2 * t + 1)
  /\ "r" \in DOMAIN registers[t + 1]
  /\ get_register(registers, t, "r") = 0

\* C17: CAS is atomic in every model: when two threads execute
\* CAS(expected 0, desired 1) on the same fresh address, at most one of them
\* succeeds.
C17_AtMostOneCasSucceeds ==
  program = "CasPair" => ~(CasPairSucceeded(0) /\ CasPairSucceeded(1))

-----------------------------------------------------------------------------
(* C18, C19, C20: the graph invariants I1, I2, I3 *)

\* C18 (I1): in every reachable state of every model, execution_candidates
\* is exactly the set of active nodes whose active_neighbors count is 0.
C18_I1_Candidates ==
  graph.execution_candidates =
    {i \in NodeIds : Active(i) /\ graph.active_neighbors[i + 1] = 0}

\* The number of positions of seq that hold x.
Occurrences(x, seq) == Cardinality({k \in 1..Len(seq) : seq[k] = x})

RECURSIVE SumOver(_, _)
SumOver(S, f) ==
  IF S = {} THEN 0
  ELSE LET x == CHOOSE y \in S : TRUE IN f[x] + SumOver(S \ {x}, f)

\* C19 (I2) as stated: active_neighbors[i] is the number of active nodes j
\* with i in rev_edges[j].
C19_I2_CountsNodes ==
  \A i \in NodeIds :
    graph.active_neighbors[i + 1] =
      Cardinality({j \in NodeIds : Active(j) /\ InSeq(i, graph.rev_edges[j + 1])})

\* C19 (I2) amended: for every node i, active_neighbors[i] is the number of
\* entries equal to i in the rev_edges lists of the active nodes j, an edge
\* added twice being counted twice.
C19_I2_CountsEdges ==
  \A i \in NodeIds :
    graph.active_neighbors[i + 1] =
      SumOver({j \in NodeIds : Active(j)},
              [j \in NodeIds |-> Occurrences(i, graph.rev_edges[j + 1])])

\* Modes under TSO or PSO after a backward jump: an active node whose count
\* exceeds the number of active nodes it waits for, one edge having been
\* added twice.
C19_Witness ==
  /\ Weak /\ program = "Modes" /\ rewinds = 1
  /\ Executed(1) /\ Active(2) /\ Active(3)
  /\ Occurrences(3, graph.rev_edges[2 + 1]) = 2
  /\ graph.active_neighbors[3 + 1] >
       Cardinality({j \in NodeIds : Active(j) /\ InSeq(3, graph.rev_edges[j + 1])})

\* After a backward jump: restored nodes are active again, some waiting
\* (count above 0, not candidates), and a candidate exists.
C18_Witness ==
  /\ rewinds = 1
  /\ \E i, j \in NodeIds :
       /\ Active(i) /\ graph.active_neighbors[i + 1] > 0
       /\ i \notin graph.execution_candidates
       /\ Active(j) /\ graph.active_neighbors[j + 1] = 0
       /\ j \in graph.execution_candidates
  /\ \E p \in PropagateIds : Executed(p)

\* Each node is either active or exactly once on execution_stack.
I3_Partition ==
  \A n \in NodeIds :
    Occurrences(n, graph.execution_stack) = (IF Active(n) THEN 0 ELSE 1)

\* A step pushes the node it removes on top of the stack, or (a backward
\* jump) pops nodes off its top, so that the stack lists the inactive nodes
\* in the order of their most recent removal.
I3_StackOrder ==
  \/ \E n \in NodeIds : graph'.execution_stack = Append(graph.execution_stack, n)
  \/ \E k \in 0..Len(graph.execution_stack) :
       graph'.execution_stack = SubSeq(graph.execution_stack, 1, k)

\* C20 (I3): in every reachable state every node ever added to the graph is
\* either active or appears exactly once on execution_stack, never both, and
\* the stack holds the inactive nodes in the order of their most recent
\* removal.
C20_I3_StackPartition == [](I3_Partition) /\ [][I3_StackOrder]_vars

\* Modes after one backward jump and the load executed again: the stack is
\* <<0, 1>>, the rest of the loop is active again, and a Propagate node of the
\* first pass exists.
C20_Witness ==
  /\ program = "Modes" /\ rewinds = 1
  /\ graph.execution_stack = <<0, 1>>
  /\ Active(2) /\ Active(3) /\ Active(4)
  /\ PropagateIds # {}

-----------------------------------------------------------------------------
(* C21 *)

\* C21 (I4): in every reachable state, active_fence_nodes is exactly the set
\* of active nodes whose instruction is a Fence.
C21_I4_ActiveFences ==
  graph.active_fence_nodes = {i \in NodeIds : Active(i) /\ Instr(i).kind = "Fence"}

\* Modes after a backward jump: the REL_ACQ fence (node 3), executed before
\* the branch that waits for it, is active again and listed, beside an
\* executed node that is not.
C21_Witness ==
  /\ program = "Modes" /\ rewinds = 1
  /\ Active(3) /\ Instr(3).kind = "Fence"
  /\ graph.active_fence_nodes = {3}
  /\ Executed(0)

-----------------------------------------------------------------------------
(* C22 *)

RECURSIVE RestoreTimes(_, _)
\* k calls of restore_node.
RestoreTimes(g, k) == IF k = 0 THEN g ELSE RestoreTimes(restore_node(g), k - 1)

ActiveNodes(g) == {n \in 0..(Len(g.instructions) - 1) : g.is_active[n + 1]}

RECURSIVE RoundTripOfActive(_, _, _, _)
\* From graph g, reached from g0 by `done` remove_node calls: every further
\* sequence of at most k remove_node calls, each on a node active when
\* called, followed by as many restore_node calls as remove_node calls were
\* made since g0, gives g0 back.
RoundTripOfActive(g0, g, k, done) ==
  \A n \in ActiveNodes(g) :
    LET g1 == remove_node(g, n)
    IN  /\ RestoreTimes(g1, done + 1) = g0
        /\ k > 1 => RoundTripOfActive(g0, g1, k - 1, done + 1)

RECURSIVE RoundTripOfCandidates(_, _, _, _)
\* The same for remove_node calls each on a node that is an execution
\* candidate when called.
RoundTripOfCandidates(g0, g, k, done) ==
  \A n \in g.execution_candidates :
    LET g1 == remove_node(g, n)
    IN  /\ RestoreTimes(g1, done + 1) = g0
        /\ k > 1 => RoundTripOfCandidates(g0, g1, k - 1, done + 1)

\* C22 as stated: for any graph and any sequence of k remove_node calls
\* followed by k restore_node calls, the graph afterwards equals the graph
\* before in its nodes, active set, rev_edges, active_neighbors, fence set,
\* candidate set and execution_stack.
C22_RoundTripAnyNodes == RoundTripOfActive(graph, graph, MaxRoundTrip, 0)

\* C22 amended: the same for sequences of remove_node calls each made on a
\* node that is an execution candidate at the time of the call.
C22_RoundTripCandidates == RoundTripOfCandidates(graph, graph, MaxRoundTrip, 0)

\* A graph with two candidates a, b whose removal one after the other frees a
\* waiting node and takes a fence off the fence set; the two restores undo it.
C22_Witness ==
  \E a, b \in NodeIds :
    LET g1 == remove_node(graph, a)
        g2 == remove_node(g1, b)
    IN  /\ a \in graph.execution_candidates /\ b \in g1.execution_candidates
        /\ b \notin graph.execution_candidates
        /\ g2.active_fence_nodes # graph.active_fence_nodes
        /\ g2.active_neighbors # graph.active_neighbors
        /\ g2.execution_stack = graph.execution_stack \o <<a, b>>
        /\ RestoreTimes(g2, 2) = graph

-----------------------------------------------------------------------------
(* C23 *)

\* The node the label of branch n names, if any node carries it.
TargetOf(n) == graph.label_to_node[Instr(n).label]

\* The step is branch n taken backward: n is a candidate Cond whose register
\* is not 0 and whose label names a node that is inactive once n is removed,
\* and the graph afterwards is the one goto leaves.
TakenBackward(n) ==
  /\ n \in Runnable
  /\ Instr(n).kind = "Cond"
  /\ Reg(n, Instr(n).r) # 0
  /\ Instr(n).label \in DOMAIN graph.label_to_node
  /\ (TargetOf(n) = n \/ ~Active(TargetOf(n)))
  /\ graph' = goto(remove_node(graph, n), Instr(n).label).graph
  /\ graph' # remove_node(graph, n)

-----------------------------------------------------------------------------
(* C24 *)

\* C24: goto(L) never changes any thread's registers, the shared memory or
\* any store buffer: a backward rewind restores graph nodes only, so a
\* re-executed instruction reads the register values written before it.
C24_RewindKeepsRegistersAndStorage ==
  [][\A n \in NodeIds :
       TakenBackward(n) =>
         /\ registers' = registers
         /\ memory' = memory
         /\ buffers' = buffers]_vars

\* S3 after its first backward jump and the second execution of the
\* decrement at L: i is 1, the decrement having read the 2 left by its first
\* execution and not the 3 of `i = 3`.
C24_Witness ==
  /\ model = "SC" /\ program = "S3" /\ rewinds = 1
  /\ MapGetOr(executions, 2, 0) = 2 /\ MapGetOr(executions, 0, 0) = 1
  /\ get_register(registers, 0, "i") = 1

-----------------------------------------------------------------------------
(* C25 *)

\* The step is branch n taken while its label names a node that stays active
\* when n is removed, or names no node at all.
TakenForward(n) ==
  /\ n \in Runnable
  /\ step_Cond(n)
  /\ Reg(n, Instr(n).r) # 0
  /\ \/ Instr(n).label \notin DOMAIN graph.label_to_node
     \/ (TargetOf(n) # n /\ Active(TargetOf(n)))

\* C25: a taken Cond whose target label is active, or is the label of no
\* node, only consumes the branch node: no node is restored, none is removed
\* or skipped, and every instruction between the branch and the label stays
\* in the graph and is still executed (in Forward under SC: `a = 5` between
\* the branch and F is executed, each of the five nodes exactly once).
C25_ForwardBranchOnlyConsumed ==
  /\ [][\A n \in NodeIds :
          TakenForward(n) =>
            /\ graph' = remove_node(graph, n)
            /\ ~panicked'
            /\ rewinds' = rewinds]_vars
  /\ []((model = "SC" /\ program = "Forward" /\ Finished) =>
          /\ \A n \in 0..4 : Executed(n) /\ MapGetOr(executions, n, 0) = 1
          /\ get_register(registers, 0, "a") = 5
          /\ get_register(registers, 0, "b") = 6)

\* Forward under SC at its end: both branches were taken (c = 1), the one to
\* F while F's node was active and the one to U, which no node carries.
C25_Witness ==
  /\ model = "SC" /\ program = "Forward" /\ Finished
  /\ get_register(registers, 0, "c") = 1
  /\ "U" \notin DOMAIN graph.label_to_node
  /\ ExecutedBefore(1, 2) /\ ExecutedBefore(2, 3) /\ ExecutedBefore(3, 4)
  /\ get_register(registers, 0, "a") = 5
  /\ rewinds = 0

-----------------------------------------------------------------------------
(* C26 *)

\* C26: under SC, every run of S3 (`i = 3; one = 1; L: i = i - one;
\* if i goto L`) terminates with register i = 0 after executing the decrement
\* at L (node 2) exactly three times and the branch (node 3) exactly three
\* times.
C26_S3Terminates ==
  /\ (model = "SC" /\ program = "S3") => <>Finished
  /\ []((model = "SC" /\ program = "S3" /\ Finished) =>
          /\ get_register(registers, 0, "i") = 0
          /\ MapGetOr(executions, 2, 0) = 3
          /\ MapGetOr(executions, 3, 0) = 3)

C26_Witness ==
  /\ model = "SC" /\ program = "S3" /\ Finished
  /\ get_register(registers, 0, "i") = 0
  /\ MapGetOr(executions, 2, 0) = 3 /\ MapGetOr(executions, 3, 0) = 3
  /\ MapGetOr(executions, 0, 0) = 1 /\ MapGetOr(executions, 1, 0) = 1
  /\ rewinds = 2

-----------------------------------------------------------------------------
(* C27 *)

\* Some thread takes a backward branch in this step.
RewindStep == \E n \in NodeIds : TakenBackward(n)

\* C27 as stated: for every program and every model, every run of the driver
\* loop terminates: after finitely many steps the candidate set is empty.
C27_EveryRunTerminates == <>Finished

\* A candidate branch that would be taken backward: its register is nonzero
\* and its label is not active once the branch node is removed.
WouldRewind(n) ==
  /\ Instr(n).kind = "Cond"
  /\ Reg(n, Instr(n).r) # 0
  /\ ~is_label_active(remove_node(graph, n), Instr(n).label)

\* Under TSO and PSO a run is followed up to MaxRewinds backward branches: it
\* is cut where the only steps left to it are further backward branches.
CutAtBound ==
  /\ Weak /\ rewinds = MaxRewinds
  /\ Runnable # {}
  /\ \A n \in Runnable : WouldRewind(n)

\* The programs whose backward branch is taken every time it is reached: Spin
\* under SC, and Modes under every model (its branch waits for the REL store
\* and the REL_ACQ fence, hence for `one = 1` and for the node at L).
LoopsForever ==
  \/ model = "SC" /\ program = "Spin"
  \/ program = "Modes"

\* C27: a run of the driver loop terminates unless it keeps taking backward
\* branches: either the candidate set is empty after finitely many steps, or
\* the run takes a backward branch again and again, or (under TSO and PSO,
\* where each rewind can add Propagate nodes) it has taken MaxRewinds backward
\* branches and nothing is left to it but to take another one.  Spin under SC
\* and Modes under every model never reach an empty candidate set.
C27_TerminatesUnlessRewinding ==
  /\ \/ <>Finished
     \/ []<><<RewindStep>>_vars
     \/ <>[]CutAtBound
  /\ [](LoopsForever => graph.execution_candidates # {})

\* A run under TSO or PSO that has taken MaxRewinds backward branches and has
\* terminated all the same: every node, Propagate nodes included, has been
\* executed.
C27_Witness ==
  /\ Weak /\ program = "LoopStore"
  /\ Finished /\ rewinds = MaxRewinds
  /\ \A n \in NodeIds : Executed(n)
  /\ PropagateIds # {}

-----------------------------------------------------------------------------
(* C28 *)

\* C28: in every reachable state of every model, if the candidate set is
\* empty then every node of the graph (original instructions and Propagate
\* nodes) is inactive and, under TSO and PSO, every thread's store buffer is
\* empty.
C28_NoCandidateMeansDone ==
  graph.execution_candidates = {} =>
    /\ \A n \in NodeIds : ~Active(n)
    /\ Weak => \A t \in ThreadIds : buffers[t + 1] = <<>>

\* A TSO or PSO run that buffered writes, took a backward branch and has no
\* candidate left.
C28_Witness ==
  /\ Weak
  /\ graph.execution_candidates = {}
  /\ PropagateIds # {}
  /\ rewinds >= 1
  /\ \A n \in NodeIds : ~Active(n)
  /\ \A t \in ThreadIds : buffers[t + 1] = <<>>
  /\ memory # EmptyMap

-----------------------------------------------------------------------------
(* C29 *)

\* What a load of address a returns under SC in the current state.
ReadsNow(a) == IF a \in DOMAIN memory THEN memory[a] ELSE 0

\* What a load of address a returns under SC in the next state.
ReadsNext(a) == IF a \in DOMAIN memory' THEN memory'[a] ELSE 0

\* The step writes v to address a and nothing else.
WritesOnly(a, v) ==
  /\ ReadsNext(a) = v
  /\ \A b \in ((DOMAIN memory) \cup (DOMAIN memory')) \ {a} : ReadsNext(b) = ReadsNow(b)

\* The step writes nothing.
WritesNothing == \A b \in (DOMAIN memory) \cup (DOMAIN memory') : ReadsNext(b) = ReadsNow(b)

\* C29: under SC, every run of S1 (`a = 7; x = 0; store SEQ_CST x a;
\* load SEQ_CST x b`) ends with register b = 7 and memory[0] = 7; and under SC
\* a load returns the value written by the most recently executed store,
\* successful CAS or FAI to that address, or 0 if there is none: memory is
\* empty at the start, a store, a successful CAS and a FAI change what is read
\* at their address to the value they write and nothing else, every other step
\* leaves what is read at every address unchanged, and a load assigns to its
\* register what is read at its address.
C29_SCLoadReadsLatestWrite ==
  /\ []((model = "SC" /\ program = "S1" /\ Finished) =>
          /\ get_register(registers, 0, "b") = 7
          /\ 0 \in DOMAIN memory /\ memory[0] = 7)
  /\ (model = "SC" => memory = EmptyMap)
  /\ [][model = "SC" =>
          \A n \in NodeIds :
            ExecutedByStep(n) =>
              LET i == Instr(n)
              IN  CASE i.kind = "Store" ->
                         WritesOnly(Reg(n, i.address), Reg(n, i.r))
                    [] i.kind = "Cas" ->
                         IF ReadsNow(Reg(n, i.address)) = Reg(n, i.exp)
                         THEN WritesOnly(Reg(n, i.address), Reg(n, i.des))
                         ELSE WritesNothing
                    [] i.kind = "Fai" ->
                         \/ panicked' /\ WritesNothing
                         \/ WritesOnly(Reg(n, i.address),
                                       AddWrap(ReadsNow(Reg(n, i.address)), Reg(n, i.inc)))
                    [] i.kind = "Load" ->
                         /\ WritesNothing
                         /\ get_register(registers', Thread(n), i.r) = ReadsNow(Reg(n, i.address))
                    [] OTHER -> WritesNothing]_vars

\* S1 has ended under SC with b = 7 read from memory[0] = 7.
C29_Witness ==
  /\ model = "SC" /\ program = "S1" /\ Finished
  /\ get_register(registers, 0, "a") = 7
  /\ get_register(registers, 0, "x") = 0
  /\ get_register(registers, 0, "b") = 7
  /\ memory = MapInsert(EmptyMap, 0, 7)
  /\ ExecutedBefore(2, 3)

-----------------------------------------------------------------------------
(* C30 *)

\* C30: a taken backward branch in thread t re-activates only nodes of thread
\* t: a node of another thread that has been executed is not made active by
\* the rewind.
C30_RewindStaysInThread ==
  [][\A n \in NodeIds :
       TakenBackward(n) =>
         \A m \in NodeIds :
           (Executed(m) /\ graph'.is_active[m + 1]) => Thread(m) = Thread(n)]_vars

\* C30, the consequence: in LoopFai under SC the single FAI of thread 1 is
\* executed once, so x ends at 1.
C30_FaiExecutedOnce ==
  (model = "SC" /\ program = "LoopFai") =>
    /\ MapGetOr(executions, 5, 0) <= 1
    /\ MapGetOr(memory, 0, 0) <= 1

-----------------------------------------------------------------------------
(* C31 *)

\* The registers step reads with get_register for an instruction.
RegistersRead(i) ==
  CASE i.kind \in {"ArithPlus", "ArithMinus", "ArithMul", "ArithDiv"} -> {i.r2, i.r3}
    [] i.kind = "Cond" -> {i.r}
    [] i.kind = "Load" -> {i.address}
    [] i.kind = "Store" -> {i.address, i.r}
    [] i.kind = "Cas" -> {i.address, i.exp, i.des}
    [] i.kind = "Fai" -> {i.address, i.inc}
    [] OTHER -> {}

\* The registers step writes with assign_register for an instruction.
RegistersWritten(i) ==
  CASE i.kind = "Const" -> {i.r}
    [] i.kind \in {"ArithPlus", "ArithMinus", "ArithMul", "ArithDiv"} -> {i.r1}
    [] i.kind = "Load" -> {i.r}
    [] i.kind \in {"Cas", "Fai"} -> {i.to}
    [] OTHER -> {}

\* C31: under TSO and PSO, an instruction that reads a register is never
\* executed while an earlier instruction of the same thread that writes that
\* register is still active.
C31_RegisterDependenciesRespected ==
  [][Weak =>
       \A n \in NodeIds :
         (Instr(n).kind # "Propagate" /\ ExecutedByStep(n)) =>
           \A j \in EarlierInThread(n) :
             RegistersRead(Instr(n)) \cap RegistersWritten(Instr(j)) # {} => ~Active(j)]_vars

\* C31, the consequence for S4 (`y = 1; v = 1; store RLX x v; fence SEQ_CST;
\* store RLX y v`): every write buffered under TSO or PSO carries the value 1
\* of v.
C31_S4StoresOne ==
  (Weak /\ program = "S4") =>
    \A t \in ThreadIds : \A k \in 1..Len(buffers[t + 1]) : buffers[t + 1][k][2] = 1

-----------------------------------------------------------------------------
(* C32 *)

\* The number of entries for address a in thread t's store buffer.
BufferedFor(t, a) == Cardinality(Matching(buffers[t + 1], a))

\* The active Propagate(t, a, _) nodes.
ActivePropagatesFor(t, a) ==
  {p \in PropagateIds : Active(p) /\ Instr(p).thread_id = t /\ Instr(p).address = a}

\* The addresses that occur in a buffer or in a Propagate node.
AddressesInUse ==
  UNION {{buffers[t + 1][k][1] : k \in 1..Len(buffers[t + 1])} : t \in ThreadIds}
    \cup {Instr(p).address : p \in PropagateIds}

\* C32: under TSO and PSO, in every reachable state and for every thread t and
\* address a, the number of entries for a in t's store buffer is at most the
\* number of active Propagate(t, a, _) nodes, with equality as long as no
\* backward branch has been taken; and as long as none has been taken, an
\* executed Propagate finds an entry to drain.
C32_BufferedAtMostPending ==
  /\ [](Weak =>
          \A t \in ThreadIds : \A a \in AddressesInUse :
            /\ BufferedFor(t, a) <= Cardinality(ActivePropagatesFor(t, a))
            /\ rewinds = 0 => BufferedFor(t, a) = Cardinality(ActivePropagatesFor(t, a)))
  /\ [][(Weak /\ rewinds = 0) =>
          \A p \in PropagateIds :
            ExecutedByStep(p) =>
              /\ Matching(buffers[Instr(p).thread_id + 1], Instr(p).address) # {}
              /\ Len(buffers'[Instr(p).thread_id + 1]) =
                   Len(buffers[Instr(p).thread_id + 1]) - 1]_vars

\* After a backward branch, a thread holds a buffered write for an address
\* and more active Propagate nodes for it than buffered writes.
C32_Witness ==
  /\ Weak /\ rewinds >= 1
  /\ \E t \in ThreadIds : \E a \in AddressesInUse :
       /\ BufferedFor(t, a) >= 1
       /\ BufferedFor(t, a) < Cardinality(ActivePropagatesFor(t, a))

====
